---- MODULE Spec2Model ----
(***************************************************************************)
(* A model of src/riot_api.py: the build cache (load_build_cache,          *)
(* save_build_cache), the record extractor (extract_build_from_participant,*)
(* extract_skill_order, extract_starting_items), the aggregator            *)
(* (aggregate_builds) and the collection orchestrator                      *)
(* (get_builds_from_api).                                                  *)
(*                                                                         *)
(* Encoding of Python values.  An id (item, perk, shard, participant id)   *)
(* is a natural number; in a position that holds an id, Python's None is   *)
(* NoneId and a JSON array or object met where an id is expected (an       *)
(* unhashable value) is Unhashable.  A dict is a record, a missing key is  *)
(* a missing field (Get).  An object-valued None is the record None.       *)
(* A string that the code formats or lower-cases is a sequence of          *)
(* segments free of "_": the string "nunu_willump" is <<"nunu","willump">>.*)
(***************************************************************************)
EXTENDS Integers, Sequences, FiniteSets, TLC

\* ------------------------------------------------------------------ bounds
MaxCalls == 2        \* calls of get_builds_from_api made in one behaviour
MaxBuilds == 3       \* builds handed to aggregate_builds in the aggregator runs
MaxMatchIds == 3     \* match ids the match-history source lists in one behaviour
MaxCacheOps == 3     \* direct calls of save_build_cache and load_build_cache

\* --------------------------------------------------------- Python values
None == [py |-> "None"]
NoneId == 0 - 1
Unhashable == 0 - 2

\* bool(x) of an id-valued Python value: None and 0 are false
Truthy(x) == x # NoneId /\ x # 0

\* dict.get(k, default)
Get(d, k, default) == IF k \in DOMAIN d THEN d[k] ELSE default

Min(a, b) == IF a < b THEN a ELSE b

\* lst[:n]
Take(lst, n) == SubSeq(lst, 1, Min(n, Len(lst)))

RECURSIVE Concat(_)
\* the concatenation of a sequence of lists (list.extend in a loop)
Concat(lists) ==
    IF lists = <<>> THEN <<>> ELSE Head(lists) \o Concat(Tail(lists))

RECURSIVE FilterTruthy(_)
\* [s for s in lst if s]
FilterTruthy(lst) ==
    IF lst = <<>> THEN <<>>
    ELSE (IF Truthy(Head(lst)) THEN <<Head(lst)>> ELSE <<>>) \o FilterTruthy(Tail(lst))

Range(lst) == {lst[i] : i \in 1..Len(lst)}

\* ------------------------------------------------------------- constants
CACHE_DURATION == 3600 * 6
\* an allowlist that lacks one pair of boots
boots_ids_incomplete == <<3006, 3009, 3020, 3111, 3117, 3158>>

boots_ids == <<3006, 3009, 3020, 3047, 3111, 3117, 3158>>
skill_map == [s \in 1..4 |-> <<"Q", "W", "E", "R">>[s]]
ROLE_MAPPING ==
    [top |-> "TOP", jungle |-> "JUNGLE", mid |-> "MIDDLE", adc |-> "BOTTOM",
     support |-> "UTILITY"]
\* the last slot left out
ItemSlots_short == 7 - 1

ItemSlots == 7
StartCutoff == 30000
ItemKey(i) == <<"item0", "item1", "item2", "item3", "item4", "item5", "item6">>[i + 1]

\* ------------------------------------------------------ record extractor
\* A timeline event that is a JSON object; any other JSON value makes
\* event.get raise AttributeError.
IsDict(e) == "bad" \notin DOMAIN e

\* the first frame only
AllEvents_first_frame(frames) ==
    IF frames = <<>> THEN <<>> ELSE Get(Head(frames), "events", <<>>)

RECURSIVE AllEvents(_)
\* the events of the frames in order, as the nested loops of
\* extract_skill_order visit them
AllEvents(frames) ==
    IF frames = <<>> THEN <<>>
    ELSE Get(Head(frames), "events", <<>>) \o AllEvents(Tail(frames))

\* the statements of the loop body of extract_skill_order that raise:
\* event.get on an event that is no JSON object (AttributeError), and the
\* lookup of line 274 on a skillSlot that is a JSON array or object (TypeError)
SkillEventRaises(event, participant_id) ==
    \/ ~IsDict(event)
    \/ /\ Get(event, "type", "None") = "SKILL_LEVEL_UP"
       /\ Get(event, "participantId", NoneId) = participant_id
       /\ Get(event, "skillSlot", NoneId) = Unhashable

RECURSIVE SkillWalk(_, _, _)
\* The loop of extract_skill_order over the events.  An exception (an event
\* that is no JSON object) leaves the try block; the function then returns
\* the list as built so far.
SkillWalk(events, participant_id, skill_order) ==
    IF events = <<>> THEN skill_order
    ELSE LET event == Head(events) IN
         IF SkillEventRaises(event, participant_id) THEN skill_order
         ELSE SkillWalk(Tail(events), participant_id,
                IF /\ Get(event, "type", "None") = "SKILL_LEVEL_UP"
                   /\ Get(event, "participantId", NoneId) = participant_id
                   /\ Get(event, "skillSlot", NoneId) \in DOMAIN skill_map
                THEN Append(skill_order, skill_map[Get(event, "skillSlot", NoneId)])
                ELSE skill_order)

\* A timeline payload that is a JSON object whose "info" is an object and
\* whose "frames" is a list; on any other payload the first statement of the
\* try block raises.
TimelineIsWalkable(timeline_data) ==
    "shape" \in DOMAIN timeline_data /\ timeline_data.shape = "dict"

extract_skill_order(timeline_data, participant_id) ==
    IF ~TimelineIsWalkable(timeline_data) THEN <<>>
    ELSE SkillWalk(AllEvents(Get(Get(timeline_data, "info", [frames |-> <<>>]),
                                 "frames", <<>>)),
                   participant_id, <<>>)

\* the statements of the loop body of extract_starting_items that raise:
\* event.get on an event that is no JSON object (AttributeError), and the
\* comparison of line 294 on "timestamp": null (TypeError)
StartEventRaises(event, participant_id) ==
    \/ ~IsDict(event)
    \/ /\ Get(event, "type", "None") = "ITEM_PURCHASED"
       /\ Get(event, "participantId", NoneId) = participant_id
       /\ Get(event, "timestamp", 0) = NoneId

\* the cutoff taken inclusive
before_cutoff_inclusive(timestamp) == timestamp <= StartCutoff

\* line 294: timestamp < 30000
before_cutoff(timestamp) == timestamp < StartCutoff

RECURSIVE StartWalk(_, _, _)
\* The loop of extract_starting_items over the events of the first frame.
\* An exception leaves the try block; the function then returns the list as
\* built so far.
StartWalk(events, participant_id, starting_items) ==
    IF events = <<>> THEN starting_items
    ELSE LET event == Head(events) IN
         IF StartEventRaises(event, participant_id) THEN starting_items
         ELSE StartWalk(Tail(events), participant_id,
                IF /\ Get(event, "type", "None") = "ITEM_PURCHASED"
                   /\ Get(event, "participantId", NoneId) = participant_id
                   /\ before_cutoff(Get(event, "timestamp", 0))
                THEN Append(starting_items, Get(event, "itemId", NoneId))
                ELSE starting_items)

extract_starting_items(timeline_data, participant_id) ==
    IF ~TimelineIsWalkable(timeline_data) THEN <<>>
    ELSE LET frames == Get(Get(timeline_data, "info", [frames |-> <<>>]),
                           "frames", <<>>)
         IN IF frames = <<>> THEN <<>>
            ELSE StartWalk(Get(frames[1], "events", <<>>), participant_id, <<>>)

RECURSIVE ItemLoop(_, _, _)
\* for i in range(7): the final items and the boots, from slot i on
ItemLoop(participant, i, acc) ==
    IF i >= ItemSlots THEN acc
    ELSE LET item_id == Get(participant, ItemKey(i), NoneId) IN
         ItemLoop(participant, i + 1,
            IF Truthy(item_id) /\ item_id > 0
            THEN IF item_id \in Range(boots_ids)
                 THEN [acc EXCEPT !.boots = item_id]
                 ELSE [acc EXCEPT !.items = Append(@, item_id)]
            ELSE acc)

RECURSIVE Perks(_)
\* [selection.get("perk") for selection in selections]
Perks(selections) ==
    IF selections = <<>> THEN <<>>
    ELSE <<Get(Head(selections), "perk", NoneId)>> \o Perks(Tail(selections))

\* The statements of extract_build_from_participant that raise on a payload
\* that is not shaped as the match API documents it: item_id > 0 on a slot
\* holding a JSON array or object (TypeError), perks.get on "perks": null
\* (AttributeError).  Nothing in the function catches them.
extract_build_raises(participant) ==
    \/ \E i \in 0..(ItemSlots - 1) : Get(participant, ItemKey(i), NoneId) = Unhashable
    \/ Get(participant, "perks", <<>>) = None

\* the shards built whatever statPerks holds
stat_perks_present_unchecked(stat_perks) == TRUE

\* line 239: if stat_perks (None and {} are false)
stat_perks_present(stat_perks) == stat_perks # None /\ DOMAIN stat_perks # {}

extract_build_from_participant(participant, timeline_data, participant_id) ==
    LET final == ItemLoop(participant, 0, [items |-> <<>>, boots |-> NoneId])
        perks == Get(participant, "perks", <<>>)
        styles == Get(perks, "styles", <<>>)
        stat_perks == Get(perks, "statPerks", <<>>)
    IN [champion_id |-> Get(participant, "championId", NoneId),
        role |-> Get(participant, "teamPosition", ""),
        win |-> Get(participant, "win", FALSE),
        items |-> final.items,
        starting_items |-> <<>>,
        boots |-> final.boots,
        runes |->
          [primary |-> IF Len(styles) >= 1
                       THEN Perks(Get(styles[1], "selections", <<>>)) ELSE <<>>,
           secondary |-> IF Len(styles) >= 2
                         THEN Perks(Get(styles[2], "selections", <<>>)) ELSE <<>>,
           shards |-> IF stat_perks_present(stat_perks)
                      THEN <<Get(stat_perks, "offense", NoneId),
                             Get(stat_perks, "flex", NoneId),
                             Get(stat_perks, "defense", NoneId)>>
                      ELSE <<>>],
        skill_order |-> IF timeline_data # None /\ Truthy(participant_id)
                        THEN extract_skill_order(timeline_data, participant_id)
                        ELSE <<>>,
        summoners |-> <<Get(participant, "summoner1Id", NoneId),
                        Get(participant, "summoner2Id", NoneId)>>]

\* ------------------------------------------------------------ aggregator
RECURSIVE CounterUpdate(_, _)
\* Counter(lst): the pairs <<value, count>> in the order in which the values
\* were first inserted (a dict keeps insertion order); c is the Counter so far
CounterUpdate(c, lst) ==
    IF lst = <<>> THEN c
    ELSE LET x == Head(lst)
             at == {i \in 1..Len(c) : c[i][1] = x}
         IN CounterUpdate(
              IF at = {} THEN Append(c, <<x, 1>>)
              ELSE [i \in 1..Len(c) |-> IF i \in at THEN <<x, c[i][2] + 1>> ELSE c[i]],
              Tail(lst))

Counter(lst) == CounterUpdate(<<>>, lst)

\* a sort that is not stable: pair goes before the pairs of its own count
InsertByCount_unstable(sorted, pair) ==
    LET before == {i \in 1..Len(sorted) : sorted[i][2] > pair[2]}
        k == Cardinality(before)
    IN SubSeq(sorted, 1, k) \o <<pair>> \o SubSeq(sorted, k + 1, Len(sorted))

\* one step of the stable descending sort: pair goes behind every pair whose
\* count is at least its own
InsertByCount(sorted, pair) ==
    LET before == {i \in 1..Len(sorted) : sorted[i][2] >= pair[2]}
        k == Cardinality(before)
    IN SubSeq(sorted, 1, k) \o <<pair>> \o SubSeq(sorted, k + 1, Len(sorted))

RECURSIVE SortByCount(_, _)
\* sorted(pairs, key = count, reverse = True), which is stable
SortByCount(sorted, pairs) ==
    IF pairs = <<>> THEN sorted
    ELSE SortByCount(InsertByCount(sorted, Head(pairs)), Tail(pairs))

\* Counter.most_common(n): heapq.nlargest(n, items, key = count), defined as
\* sorted(items, key = count, reverse = True)[:n]
\* most_common with its argument n left out
Counter_most_common_all(c, n) == SortByCount(<<>>, c)

Counter_most_common(c, n) == Take(SortByCount(<<>>, c), n)

\* the nested helper most_common(lst, n) of aggregate_builds
most_common(lst, n) ==
    IF lst = <<>> THEN <<>>
    ELSE LET top == Counter_most_common(Counter(lst), n)
         IN [i \in 1..Len(top) |-> top[i][1]]

\* the lists aggregate_builds flattens the builds into
all_items(builds) == Concat([i \in 1..Len(builds) |-> builds[i].items])
all_starting(builds) == Concat([i \in 1..Len(builds) |-> builds[i].starting_items])
all_boots(builds) ==
    Concat([i \in 1..Len(builds) |->
              IF Truthy(builds[i].boots) THEN <<builds[i].boots>> ELSE <<>>])
all_primary_runes(builds) == Concat([i \in 1..Len(builds) |-> builds[i].runes.primary])
all_secondary_runes(builds) ==
    Concat([i \in 1..Len(builds) |-> builds[i].runes.secondary])
all_shards(builds) ==
    Concat([i \in 1..Len(builds) |-> FilterTruthy(builds[i].runes.shards)])
\* the skill sequences taken whole, the [:3] left out
all_skill_orders_untruncated(builds) ==
    Concat([i \in 1..Len(builds) |->
              IF builds[i].skill_order # <<>> THEN <<builds[i].skill_order>> ELSE <<>>])

all_skill_orders(builds) ==
    Concat([i \in 1..Len(builds) |->
              IF builds[i].skill_order # <<>>
              THEN <<Take(builds[i].skill_order, 3)>> ELSE <<>>])

\* Counter(lst) hashes every element: an unhashable one raises TypeError,
\* which aggregate_builds does not catch.
aggregate_builds_raises(builds) ==
    Unhashable \in Range(all_items(builds)) \cup Range(all_starting(builds))
                   \cup Range(all_primary_runes(builds))
                   \cup Range(all_secondary_runes(builds))
                   \cup Range(all_shards(builds))

\* the distinct core items counted instead of the builds
sample_size_distinct(builds) == Cardinality(Range(all_items(builds)))

\* line 354: "sample_size": len(builds)
sample_size(builds) == Len(builds)

aggregate_builds(builds) ==
    IF builds = <<>> THEN None
    ELSE [items |-> [core |-> most_common(all_items(builds), 6),
                     starting |-> most_common(all_starting(builds), 3),
                     boots |-> most_common(all_boots(builds), 1)],
          runes |-> [primary |-> most_common(all_primary_runes(builds), 4),
                     secondary |-> most_common(all_secondary_runes(builds), 2),
                     shards |-> most_common(all_shards(builds), 3)],
          skill_order |->
              IF all_skill_orders(builds) # <<>>
              THEN Counter_most_common(Counter(all_skill_orders(builds)), 1)[1][1]
              ELSE <<>>,
          sample_size |-> sample_size(builds)]

\* ------------------------------------------------------------ the cache
\* The champion ids and roles the callers pass.  "Nunu" is a champion (the
\* mapping knows it as "nunu"); "Nunu_willump" is none; "willump_top" is no
\* role.
ChampionIds == {<<"Nunu">>, <<"Nunu", "willump">>}
Roles == {<<"top">>, <<"willump", "top">>}
Regions == {"euw"}
MaxMatchesArgs == {0, 1, 2}

\* str.lower(), segment by segment
LowerSegment(seg) == IF seg = "Nunu" THEN "nunu" ELSE seg
Lower(str) == [i \in 1..Len(str) |-> LowerSegment(str[i])]

\* f"build_cache_{champion_id}_{role}.json" in CACHE_DIR: the segments of the
\* file name (the directory and the extension are the same for every key)
get_cache_path(champion_id, role) == <<"build", "cache">> \o champion_id \o role

Paths == {get_cache_path(c, r) : c \in ChampionIds, r \in Roles}

Absent == [kind |-> "absent"]
\* a file just opened with mode "w": zero bytes
Truncated == [kind |-> "unreadable", bytes |-> 0]

\* the number of JSON array elements of an AggregatedBuild: the part of the
\* length of the serialised cache dict that varies between two payloads of
\* one cache file
json_len(data) ==
    IF data = None THEN 0
    ELSE Len(data.items.core) + Len(data.items.starting) + Len(data.items.boots)
         + Len(data.runes.primary) + Len(data.runes.secondary)
         + Len(data.runes.shards) + Len(data.skill_order)

\* load_build_cache with the comparison of line 46 turned round
load_build_cache_reversed(fs, now, champion_id, role) ==
    LET file == fs[get_cache_path(champion_id, role)] IN
    IF file.kind = "absent" THEN None
    ELSE IF file.kind = "unreadable" THEN None
    ELSE IF now - Get(file.cache, "timestamp", 0) > CACHE_DURATION
         THEN Get(file.cache, "data", None)
         ELSE None

\* json.load of the file content; a file that holds no JSON document raises
load_build_cache(fs, now, champion_id, role) ==
    LET file == fs[get_cache_path(champion_id, role)] IN
    IF file.kind = "absent" THEN None
    ELSE IF file.kind = "unreadable" THEN None
    ELSE IF now - Get(file.cache, "timestamp", 0) < CACHE_DURATION
         THEN Get(file.cache, "data", None)
         ELSE None

\* cache_dict with the payload left out
cache_dict_without_data(now, champion_id, role, data) ==
    [timestamp |-> now, champion_id |-> champion_id, role |-> role, data |-> None]

\* the cache dict save_build_cache builds, stamped with time.time()
cache_dict(now, champion_id, role, data) ==
    [timestamp |-> now, champion_id |-> champion_id, role |-> role, data |-> data]

\* open(cache_path, "w"): the file exists and is empty
open_w(fs, champion_id, role) ==
    [fs EXCEPT ![get_cache_path(champion_id, role)] = Truncated]

\* json.dump(cache, f) and the close of f: the buffered document is written
\* at offset 0 of whatever the file holds by then.  Bytes another writer put
\* there since the open stay behind the end of a shorter document, and the
\* file is then no JSON document.
json_dump(fs, cache) ==
    LET path == get_cache_path(cache.champion_id, cache.role)
        old == fs[path]
        bytes == json_len(cache.data)
    IN [fs EXCEPT ![path] =
          IF old.kind = "absent" \/ old.bytes <= bytes
          THEN [kind |-> "json", bytes |-> bytes, cache |-> cache]
          ELSE [kind |-> "unreadable", bytes |-> old.bytes]]

\* save_build_cache when nothing else touches the file between its open and
\* its close
save_build_cache(fs, now, champion_id, role, data) ==
    json_dump(open_w(fs, champion_id, role), cache_dict(now, champion_id, role, data))

\* --------------------------------------------------- the external sources
\* What the reference-data source answers: the name -> key mapping of
\* get_champion_key_mapping, or {} when the fetch failed (any exception).
ChampionMapping == [name \in {<<"nunu">>} |-> 20]
MappingOutcomes == {ChampionMapping, <<>>}

\* What a ladder request answers: entries, a non-OK status, or an exception.
LadderOk(summoner_ids) == [kind |-> "ok", entries |-> summoner_ids]
LadderNotOk == [kind |-> "not_ok", entries |-> <<>>]
LadderRaises == [kind |-> "raises", entries |-> <<>>]
ChallengerOutcomes == {LadderOk(<<1>>), LadderOk(<<>>), LadderNotOk, LadderRaises}
GrandmasterOutcomes == {LadderOk(<<2>>), LadderNotOk, LadderRaises}

\* get_high_elo_players without the [:50] slices of lines 104 and 111
get_high_elo_players_uncapped(challenger, grandmaster) ==
    IF challenger.kind = "raises" \/ grandmaster.kind = "raises" THEN <<>>
    ELSE (IF challenger.kind = "ok" THEN challenger.entries ELSE <<>>)
         \o (IF grandmaster.kind = "ok" THEN grandmaster.entries ELSE <<>>)

\* get_high_elo_players returning, from its handler, the players collected
\* before the exception
get_high_elo_players_keeping(challenger, grandmaster) ==
    IF challenger.kind = "raises" THEN <<>>
    ELSE (IF challenger.kind = "ok" THEN Take(challenger.entries, 50) ELSE <<>>)
         \o (IF grandmaster.kind = "ok" THEN Take(grandmaster.entries, 50) ELSE <<>>)

\* get_high_elo_players, given the answers of the two ladder requests
get_high_elo_players(challenger, grandmaster) ==
    IF challenger.kind = "raises" \/ grandmaster.kind = "raises" THEN <<>>
    ELSE (IF challenger.kind = "ok" THEN Take(challenger.entries, 50) ELSE <<>>)
         \o (IF grandmaster.kind = "ok" THEN Take(grandmaster.entries, 50) ELSE <<>>)

\* the ladder requests get_high_elo_players issues: the second only when the
\* first did not raise
ladder_requests(challenger) == IF challenger.kind = "raises" THEN 1 ELSE 2

\* Participants of a match.  Pa and Pb play the target champion (key 20) on
\* TOP, Pm plays it on MIDDLE, Po plays another champion.
Selection(perk) == [perk |-> perk]
Pa == [championId |-> 20, teamPosition |-> "TOP", win |-> TRUE, participantId |-> 1,
       item0 |-> 3071, item1 |-> 3006, item2 |-> 0, item3 |-> 6697, item6 |-> 3364,
       perks |-> [styles |-> <<[selections |-> <<Selection(8010), Selection(8009)>>],
                               [selections |-> <<Selection(8444)>>]>>,
                  statPerks |-> [offense |-> 5008, flex |-> 5008, defense |-> 5001]],
       summoner1Id |-> 4, summoner2Id |-> 12]
Pb == [championId |-> 20, teamPosition |-> "TOP", win |-> FALSE, participantId |-> 2,
       item0 |-> 3161, item1 |-> 3047,
       perks |-> [styles |-> <<[selections |-> <<Selection(8010)>>]>>],
       summoner1Id |-> 4, summoner2Id |-> 14]
Pm == [championId |-> 20, teamPosition |-> "MIDDLE", win |-> TRUE, participantId |-> 3,
       item0 |-> 3161, item1 |-> 3071, item2 |-> 3006,
       perks |-> [styles |-> <<[selections |-> <<Selection(8010)>>]>>],
       summoner1Id |-> 4, summoner2Id |-> 14]
Po == [championId |-> 99, teamPosition |-> "TOP", win |-> FALSE, participantId |-> 4,
       item0 |-> 1001]
\* "perks": null
Pnull == [championId |-> 20, teamPosition |-> "TOP", participantId |-> 5,
          perks |-> None]

\* What a match-details request answers: None (failure or non-OK status), or
\* the JSON body.  InfoNull is the body {"info": null}.
Match(participants) == [shape |-> "match", info |-> [participants |-> participants]]
InfoNull == [shape |-> "info_null"]
MatchDetailsOutcomes ==
    {None, Match(<<Po>>), Match(<<Po, Pa, Pb, Pm>>), Match(<<Pnull>>), InfoNull}

\* Timeline events
Purchase(pid, timestamp, item_id) ==
    [type |-> "ITEM_PURCHASED", participantId |-> pid, timestamp |-> timestamp,
     itemId |-> item_id]
SkillUp(pid, slot) == [type |-> "SKILL_LEVEL_UP", participantId |-> pid, skillSlot |-> slot]
Timeline(frames) == [shape |-> "dict", info |-> [frames |-> frames]]
T1 == Timeline(<<[events |-> <<Purchase(1, 1000, 1054), Purchase(2, 2000, 1055),
                               Purchase(3, 2000, 1055), SkillUp(1, 1), SkillUp(2, 1),
                               SkillUp(3, 2)>>],
                 [events |-> <<SkillUp(1, 2), SkillUp(1, 3), SkillUp(1, 1),
                               SkillUp(2, 3), Purchase(1, 61000, 3071)>>]>>)
\* a purchase event whose itemId is a JSON array
TUnhashable == Timeline(<<[events |-> <<Purchase(1, 1000, Unhashable),
                                      Purchase(2, 1000, Unhashable),
                                      Purchase(3, 1000, Unhashable)>>]>>)
\* a body that is a JSON array, not an object
TList == [shape |-> "list"]
\* What a timeline request answers: None, or the JSON body.
TimelineOutcomes == {None, T1, TUnhashable, TList}

\* ------------------------------------------------------------- the state
VARIABLES
    RIOT_API_KEY,   \* the credential read from the environment at import
    clock,          \* time.time(), in seconds
    files,          \* the cache directory: path -> file content
    writer,         \* per path, the run whose json.dump completed last
    runs,           \* the runs of get_builds_from_api that may be called
    calls,          \* calls made so far
    listed,         \* match ids the match-history source has listed so far
    run,            \* per run: its arguments, locals and position
    saved,          \* cache runs: per key, the last save_build_cache call
    loaded,         \* cache runs: the last load_build_cache call and its value
    builds_in,      \* aggregator runs: the list handed to aggregate_builds
    aggregated,     \* aggregator runs: what aggregate_builds returned
    participant_in, \* extractor runs: the participant handed to the extractor
    timeline_in,    \* extractor runs: the timeline handed to the extractor
    extracted,      \* extractor runs: what the extractor returned
    request         \* client runs: the call of _make_request under way

vars == <<RIOT_API_KEY, clock, files, writer, runs, calls, listed, run, saved, loaded,
          builds_in, aggregated, participant_in, timeline_in, extracted, request>>

\* the input and the output of the direct calls of the extractor
extraction == <<participant_in, timeline_in, extracted>>

\* what the orchestrator never touches
direct == <<saved, loaded, builds_in, aggregated, extraction, request>>

RunIds == {"r1", "r2"}
Keys == ChampionIds \X Roles

\* the seconds that pass between two calls
Elapsed == {0, CACHE_DURATION - 1, CACHE_DURATION}
\* the seconds a collection takes up to Finalize
ScanTime == {1}

NoCalls == [mapping |-> 0, ladder |-> 0, puuid |-> 0, match_list |-> 0,
            details |-> 0, timeline |-> 0]
Total(net) == net.mapping + net.ladder + net.puuid + net.match_list + net.details
              + net.timeline

\* a run that is not executing get_builds_from_api; net counts the requests
\* of the run by kind
Idle ==
    [pc |-> "idle", champion_id |-> <<>>, role |-> <<>>, region |-> "",
     max_matches |-> 0, champion_mapping |-> <<>>, champion_key |-> NoneId,
     target_role |-> "", players |-> <<>>, pidx |-> 0, match_ids |-> <<>>, midx |-> 0,
     participant |-> None, builds |-> <<>>, matches_checked |-> 0,
     aggregated |-> None, cache |-> None, result |-> None, net |-> NoCalls,
     cache_reads |-> 0, cache_writes |-> 0, last |-> "none", gap |-> "none",
     challenger |-> None, grandmaster |-> None, enumerated |-> <<>>,
     participants |-> <<>>, player_details |-> 0, timeline |-> None]

\* time.sleep(0.1), lines 397 and 405
sleep(r) == [r EXCEPT !.last = "sleep"]

\* A request of the scan is sent (requests.get in get_puuid_from_summoner_id,
\* get_recent_matches, get_match_details, get_match_timeline); gap keeps what
\* the run did last before it, a sleep or another request.
scan_call(r) == [r EXCEPT !.gap = r.last, !.last = "call"]

Return(r, value) == [r EXCEPT !.pc = "done", !.result = value]
Raise(r) == [r EXCEPT !.pc = "raised"]

\* aggregate_builds has not been called on builds_in
NotCalled == [called |-> FALSE]

\* no call of _make_request made yet
NoRequest ==
    [pc |-> "idle", endpoint |-> "", attempt |-> 0, log |-> <<>>, result |-> None,
     raised |-> None, requests |-> 0]

\* the state at import, before any direct call of the extractor
InitBase(run_ids) ==
    /\ RIOT_API_KEY \in {"", "RGAPI"}
    /\ clock = 0
    /\ files = [path \in Paths |-> Absent]
    /\ writer = [path \in Paths |-> "none"]
    /\ runs = run_ids
    /\ calls = 0
    /\ listed = 0
    /\ run = [p \in RunIds |-> Idle]
    /\ saved = [k \in Keys |-> None]
    /\ loaded = None
    /\ builds_in = <<>>
    /\ aggregated = NotCalled
    /\ request = NoRequest

InitWith(run_ids) ==
    /\ InitBase(run_ids)
    /\ participant_in = None
    /\ timeline_in = None
    /\ extracted = NotCalled

\* the credential check left out
Configured_unchecked(key) == TRUE

\* line 364: not RIOT_API_KEY
Configured(key) == key # ""

\* the check of the champion key left out
champion_found_unchecked(champion_key) == TRUE

\* line 378: not champion_key
champion_found(champion_key) == Truthy(champion_key)

\* the budget check off by one
enough_off_by_one(matches_checked, max_matches) == matches_checked > max_matches

\* lines 390 and 402: matches_checked >= max_matches
enough(matches_checked, max_matches) == matches_checked >= max_matches

\* the count argument left out: the default of get_recent_matches applies
recent_count_default == 2 * 5

\* line 399: count=5, the most ids the match-history source then lists
recent_count == 5

\* line 382: ROLE_MAPPING.get(role, "MIDDLE")
target_role_of(role) ==
    IF Len(role) = 1 THEN Get(ROLE_MAPPING, role[1], "MIDDLE") ELSE "MIDDLE"

\* break instead of continue: a failed resolution ends the scan
skip_player_ends_scan(r) == [r EXCEPT !.pc = "finalize"]

\* line 395: continue, to the next player
skip_player(r) == [r EXCEPT !.pc = "player", !.pidx = @ + 1]

\* the partial result saved to the cache before the next match id
skip_match_saving(r) ==
    [r EXCEPT !.pc = "match", !.midx = @ + 1, !.cache_writes = @ + 1]

\* line 409 (and the end of the loop body): continue, to the next match id
skip_match(r) == [r EXCEPT !.pc = "match", !.midx = @ + 1]

\* The process starts again and reads the credential from its environment;
\* the cache files stay.
Restart(key) ==
    /\ \A p \in RunIds : run[p].pc = "idle"
    /\ calls < MaxCalls
    /\ key # RIOT_API_KEY
    /\ RIOT_API_KEY' = key
    /\ UNCHANGED <<clock, files, writer, runs, calls, listed, run, direct>>

\* get_builds_from_api, lines 359-372: the call, the credential check and
\* CacheCheck.  elapsed is the time since the previous call returned; the
\* clock starts with the first call.
Start(p, champion_id, role, region, max_matches, elapsed) ==
    /\ p \in runs
    /\ run[p].pc = "idle"
    /\ calls < MaxCalls
    /\ calls = 0 => elapsed = 0
    /\ calls' = calls + 1
    /\ LET r == [Idle EXCEPT !.champion_id = champion_id, !.role = role,
                             !.region = region, !.max_matches = max_matches]
       IN IF ~Configured(RIOT_API_KEY)
          THEN /\ run' = [run EXCEPT ![p] = Return(r, None)]
               /\ clock' = clock
          ELSE /\ clock' = clock + elapsed
               /\ LET cached == load_build_cache(files, clock', champion_id, role)
                      read == [r EXCEPT !.cache_reads = @ + 1]
                  IN run' = [run EXCEPT ![p] =
                               IF cached # None THEN Return(read, cached)
                               ELSE [read EXCEPT !.pc = "mapping"]]
    /\ UNCHANGED <<RIOT_API_KEY, files, writer, runs, listed, direct>>

\* lines 374-383: MappingResolve
MappingResolve(p, champion_mapping) ==
    /\ run[p].pc = "mapping"
    /\ LET r == [run[p] EXCEPT !.net.mapping = @ + 1,
                               !.champion_mapping = champion_mapping]
           champion_key == Get(champion_mapping, Lower(r.champion_id), NoneId)
       IN run' = [run EXCEPT ![p] =
                    IF ~champion_found(champion_key) THEN Return(r, None)
                    ELSE [r EXCEPT !.pc = "enumerate",
                                   !.champion_key = champion_key,
                                   !.target_role = target_role_of(r.role)]]
    /\ UNCHANGED <<RIOT_API_KEY, clock, files, writer, runs, calls, listed, direct>>

\* lines 385-388: PlayerEnumerate
PlayerEnumerate(p, challenger, grandmaster) ==
    /\ run[p].pc = "enumerate"
    /\ run' = [run EXCEPT ![p] =
                 [@ EXCEPT !.pc = "player",
                           !.challenger = challenger,
                           !.grandmaster = grandmaster,
                           !.enumerated = get_high_elo_players(challenger, grandmaster),
                           !.players = Take(get_high_elo_players(challenger, grandmaster), 20),
                           !.pidx = 1,
                           !.net.ladder = @ + ladder_requests(challenger)]]
    /\ UNCHANGED <<RIOT_API_KEY, clock, files, writer, runs, calls, listed, direct>>

\* lines 389-395: the head of the loop over the players and the player
\* resolution; puuid_ok is whether get_puuid_from_summoner_id gave a puuid
ResolvePlayer(p, puuid_ok) ==
    /\ run[p].pc = "player"
    /\ LET r == run[p]
           asked == scan_call([r EXCEPT !.net.puuid = @ + 1])
       IN run' = [run EXCEPT ![p] =
                    IF r.pidx > Len(r.players) \/ enough(r.matches_checked, r.max_matches)
                    THEN [r EXCEPT !.pc = "finalize"]
                    ELSE IF ~puuid_ok THEN skip_player(asked)
                    ELSE [sleep(asked) EXCEPT !.pc = "match_list"]]
    /\ UNCHANGED <<RIOT_API_KEY, clock, files, writer, runs, calls, listed, direct>>

\* lines 397-399: get_recent_matches(puuid, region, count=5); the source lists
\* at most count match ids ([] on a failure)
RecentMatches(p, match_ids, budget) ==
    /\ run[p].pc = "match_list"
    /\ Len(match_ids) <= recent_count
    /\ listed + Len(match_ids) <= budget
    /\ listed' = listed + Len(match_ids)
    /\ run' = [run EXCEPT ![p] =
                 [scan_call(@) EXCEPT !.pc = "match", !.match_ids = match_ids,
                                      !.midx = 1, !.net.match_list = @ + 1,
                                      !.player_details = 0]]
    /\ UNCHANGED <<RIOT_API_KEY, clock, files, writer, runs, calls, direct>>

\* lines 413-415: the index of the first participant of the target champion
\* on the target role, or 0
FirstMatching(participants, champion_key, target_role) ==
    LET hits == {i \in 1..Len(participants) :
                    /\ Get(participants[i], "championId", NoneId) = champion_key
                    /\ Get(participants[i], "teamPosition", "None") = target_role}
    IN IF hits = {} THEN 0 ELSE CHOOSE i \in hits : \A j \in hits : i <= j

\* lines 401-415: the head of the loop over the match ids, the match-details
\* fetch and the search for the participant.  {"info": null} makes line 412
\* raise AttributeError.
MatchDetails(p, match_data) ==
    /\ run[p].pc = "match"
    /\ LET r == run[p]
           fetched == scan_call(sleep([r EXCEPT !.net.details = @ + 1,
                                                !.player_details = @ + 1,
                                                !.participants = <<>>]))
       IN run' = [run EXCEPT ![p] =
            IF r.midx > Len(r.match_ids) \/ enough(r.matches_checked, r.max_matches)
            THEN skip_player(r)
            ELSE IF match_data = None THEN skip_match(fetched)
            ELSE IF match_data.shape = "info_null" THEN Raise(fetched)
            ELSE LET participants == Get(match_data.info, "participants", <<>>)
                     i == FirstMatching(participants, r.champion_key, r.target_role)
                 IN IF i = 0 THEN skip_match(fetched)
                    ELSE [fetched EXCEPT !.pc = "timeline",
                                         !.participants = participants,
                                         !.participant = participants[i]]]
    /\ UNCHANGED <<RIOT_API_KEY, clock, files, writer, runs, calls, listed, direct>>

\* lines 416-428: the timeline fetch, the extraction and the accumulation
MatchTimeline(p, timeline) ==
    /\ run[p].pc = "timeline"
    /\ LET r == scan_call([run[p] EXCEPT !.net.timeline = @ + 1,
                                         !.timeline = timeline])
           participant_id == Get(r.participant, "participantId", NoneId)
           build == extract_build_from_participant(r.participant, timeline, participant_id)
       IN run' = [run EXCEPT ![p] =
            IF extract_build_raises(r.participant) THEN Raise(r)
            ELSE skip_match(
                   [r EXCEPT !.builds = Append(@,
                               IF timeline # None
                               THEN [build EXCEPT !.starting_items =
                                       extract_starting_items(timeline, participant_id)]
                               ELSE build),
                             !.matches_checked = @ + 1,
                             !.participant = None])]
    /\ UNCHANGED <<RIOT_API_KEY, clock, files, writer, runs, calls, listed, direct>>

\* the test of line 430 left out
any_builds_unchecked(builds) == TRUE

\* line 430: if builds
any_builds(builds) == builds # <<>>

\* lines 430-435 and save_build_cache up to its open: Finalize
Finalize(p, elapsed) ==
    /\ run[p].pc = "finalize"
    /\ LET r == run[p] IN
       IF ~any_builds(r.builds)
       THEN /\ run' = [run EXCEPT ![p] = Return(r, None)]
            /\ UNCHANGED <<clock, files>>
       ELSE IF aggregate_builds_raises(r.builds)
       THEN /\ run' = [run EXCEPT ![p] = Raise(r)]
            /\ UNCHANGED <<clock, files>>
       ELSE /\ clock' = clock + elapsed
            /\ files' = open_w(files, r.champion_id, r.role)
            /\ run' = [run EXCEPT ![p] =
                         [r EXCEPT !.pc = "dump",
                                   !.cache_writes = @ + 1,
                                   !.aggregated = aggregate_builds(r.builds),
                                   !.cache = cache_dict(clock', r.champion_id, r.role,
                                                        aggregate_builds(r.builds))]]
    /\ UNCHANGED <<RIOT_API_KEY, writer, runs, calls, listed, direct>>

\* save_build_cache, line 64, and the return of line 433
Dump(p) ==
    /\ run[p].pc = "dump"
    /\ files' = json_dump(files, run[p].cache)
    /\ writer' = [writer EXCEPT
                    ![get_cache_path(run[p].champion_id, run[p].role)] = p]
    /\ run' = [run EXCEPT ![p] = Return(@, @.aggregated)]
    /\ UNCHANGED <<RIOT_API_KEY, clock, runs, calls, listed, direct>>

\* the caller takes the result (or the exception); the run can be called again
Finish(p) ==
    /\ run[p].pc \in {"done", "raised"}
    /\ run' = [run EXCEPT ![p] = Idle]
    /\ UNCHANGED <<RIOT_API_KEY, clock, files, writer, runs, calls, listed, direct>>

MatchIdLists == {<<>>, <<1>>, <<1, 2>>, <<1, 2, 3>>}

\* the steps of the program, its inputs and the answers of the external
\* sources drawn from the given sets
\* the regions given, the match-history source listing at most budget ids
StepIn(regions, budget, keys, champion_ids, roles, max_matches_args, elapsed, mappings, challengers, grandmasters, resolutions, match_id_lists, details, timelines) ==
    \/ \E key \in keys : Restart(key)
    \/ \E p \in RunIds, c \in champion_ids, r \in roles, g \in regions,
          m \in max_matches_args, e \in elapsed : Start(p, c, r, g, m, e)
    \/ \E p \in RunIds, mapping \in mappings : MappingResolve(p, mapping)
    \/ \E p \in RunIds, ch \in challengers, gm \in grandmasters :
          PlayerEnumerate(p, ch, gm)
    \/ \E p \in RunIds, ok \in resolutions : ResolvePlayer(p, ok)
    \/ \E p \in RunIds, ids \in match_id_lists : RecentMatches(p, ids, budget)
    \/ \E p \in RunIds, d \in details : MatchDetails(p, d)
    \/ \E p \in RunIds, t \in timelines : MatchTimeline(p, t)
    \/ \E p \in RunIds, e \in ScanTime : Finalize(p, e)
    \/ \E p \in RunIds : Dump(p)
    \/ \E p \in RunIds : Finish(p)

Step(keys, champion_ids, roles, max_matches_args, elapsed, mappings, challengers, grandmasters, resolutions, match_id_lists, details, timelines) ==
    StepIn(Regions, MaxMatchIds, keys, champion_ids, roles, max_matches_args, elapsed,
           mappings, challengers, grandmasters, resolutions, match_id_lists, details,
           timelines)

\* One run at a time: the calls of get_builds_from_api follow one another.
Init == InitWith({"r1"})

Next ==
    Step({"", "RGAPI"}, ChampionIds, Roles, MaxMatchesArgs, Elapsed, MappingOutcomes,
         ChallengerOutcomes, GrandmasterOutcomes, BOOLEAN, MatchIdLists,
         MatchDetailsOutcomes, TimelineOutcomes)

Spec == Init /\ [][Next]_vars

\* ------------------------------------------- overlapping runs of one key
\* Two runs of get_builds_from_api for ("Nunu", "top") that may overlap; the
\* sources answer, and a timeline is there or not.
InitOverlap == InitWith(RunIds)

NextOverlap ==
    Step({"", "RGAPI"}, {<<"Nunu">>}, {<<"top">>}, {1}, {0}, {ChampionMapping},
         {LadderOk(<<1>>)}, {LadderNotOk}, {TRUE}, {<<1>>},
         {Match(<<Po, Pa, Pb, Pm>>)}, {None, T1})

SpecOverlap == InitOverlap /\ [][NextOverlap]_vars

\* ------------------------------------------------------ long ladders
\* Ladders longer than the slices and the cap: 51 challengers (1..51),
\* 51 grandmasters (101..151), and a challenger ladder of 12.  No player of
\* them need have a match to show, so a run may walk all its players.
NextLadder ==
    Step({"", "RGAPI"}, {<<"Nunu">>}, {<<"top">>}, {1}, {0}, {ChampionMapping},
         {LadderOk([i \in 1..51 |-> i]), LadderOk([i \in 1..12 |-> i]), LadderNotOk},
         {LadderOk([i \in 1..51 |-> 100 + i]), LadderNotOk, LadderRaises}, BOOLEAN,
         {<<>>, <<1>>},
         {None, Match(<<Po, Pa>>)}, {None, T1})

SpecLadder == Init /\ [][NextLadder]_vars

\* ------------------------------------------------- long match histories
\* One player whose match history has as many ids as the source may list for
\* count=5, or one more (which that source never lists); in a match the
\* target champion is played on the target role by two participants, in
\* either order, or by none.
MaxScanIds == 12

NextMatches ==
    StepIn(Regions, MaxScanIds, {"", "RGAPI"}, {<<"Nunu">>}, {<<"top">>}, {1, 2}, {0},
           {ChampionMapping}, {LadderOk(<<1>>)}, {LadderOk(<<2>>), LadderNotOk}, BOOLEAN,
           {<<>>, <<1, 2, 3, 4, 5>>, <<1, 2, 3, 4, 5, 6>>},
           {None, Match(<<Po>>), Match(<<Po, Pm, Pa, Pb>>), Match(<<Pb, Po, Pa>>)},
           {None, T1})

SpecMatches == Init /\ [][NextMatches]_vars

\* ------------------------------------------- regions and max_matches
\* Two runs for ("Nunu", "top"), each called with one of two regions and one
\* of two values of max_matches, at once or one second less than
\* CACHE_DURATION after the call before.
NextRegions ==
    StepIn({"euw", "na"}, MaxMatchIds, {"", "RGAPI"}, {<<"Nunu">>}, {<<"top">>}, {1, 2},
           {0, CACHE_DURATION - 1}, {ChampionMapping}, {LadderOk(<<1>>)}, {LadderNotOk},
           {TRUE}, {<<1, 2>>}, {Match(<<Po, Pa, Pb, Pm>>)}, {T1})

SpecRegions == InitOverlap /\ [][NextRegions]_vars

\* ------------------------------------------------- the cache on its own
\* save_build_cache and load_build_cache called directly, on the keys of
\* Keys, with the payloads of CachePayloads, at the times the clock gives.
BuildOf(participant) ==
    extract_build_from_participant(participant, None,
                                   Get(participant, "participantId", NoneId))
CachePayloads ==
    {aggregate_builds(<<BuildOf(Pa)>>), aggregate_builds(<<BuildOf(Pa), BuildOf(Pm)>>)}

CacheSave(champion_id, role, data, elapsed) ==
    /\ calls < MaxCacheOps
    /\ calls' = calls + 1
    /\ clock' = clock + elapsed
    /\ files' = save_build_cache(files, clock', champion_id, role, data)
    /\ saved' = [saved EXCEPT ![<<champion_id, role>>] = [at |-> clock', data |-> data]]
    /\ loaded' = None
    /\ UNCHANGED <<RIOT_API_KEY, writer, runs, listed, run, builds_in, aggregated,
                   extraction, request>>

CacheLoad(champion_id, role, elapsed) ==
    /\ calls < MaxCacheOps
    /\ calls' = calls + 1
    /\ clock' = clock + elapsed
    /\ loaded' = [champion_id |-> champion_id, role |-> role, at |-> clock',
                  value |-> load_build_cache(files, clock', champion_id, role)]
    /\ UNCHANGED <<RIOT_API_KEY, files, writer, runs, listed, run, saved, builds_in,
                   aggregated, extraction, request>>

InitCache == InitWith({})

NextCache ==
    \/ \E c \in ChampionIds, r \in Roles, data \in CachePayloads, e \in Elapsed :
          CacheSave(c, r, data, e)
    \/ \E c \in ChampionIds, r \in Roles, e \in Elapsed : CacheLoad(c, r, e)

SpecCache == InitCache /\ [][NextCache]_vars

\* --------------------------------------------- the aggregator on its own
\* aggregate_builds called on a list of up to MaxBuilds builds of
\* BuildCatalogue.
NormalizedBuild(items, starting_items, boots, primary, secondary, shards, skill_order) ==
    [champion_id |-> 20, role |-> "TOP", win |-> TRUE, items |-> items,
     starting_items |-> starting_items, boots |-> boots,
     runes |-> [primary |-> primary, secondary |-> secondary, shards |-> shards],
     skill_order |-> skill_order, summoners |-> <<4, 12>>]
B1 == NormalizedBuild(<<1, 2, 3>>, <<11, 12>>, 3047, <<21, 22, 23, 24>>, <<31, 32>>,
                      <<41, 41, 42>>, <<"Q", "W", "E", "Q">>)
B2 == NormalizedBuild(<<1, 2, 4>>, <<12, 13>>, 3006, <<21, 25, 23, 26>>, <<33, 31>>,
                      <<41, 43, NoneId>>, <<"Q", "W", "E">>)
B3 == NormalizedBuild(<<1, 5, 6>>, <<14, 11>>, NoneId, <<27, 22>>, <<32>>,
                      <<44, 42, 43>>, <<"Q", "E", "W">>)
B4 == NormalizedBuild(<<9, 8, 7, 6, 5, 4>>, <<>>, 3006, <<>>, <<>>, <<>>, <<>>)
B5 == NormalizedBuild(<<>>, <<13>>, NoneId, <<28>>, <<34, 33>>, <<NoneId, 43, 45>>,
                      <<"E", "Q">>)
BuildCatalogue == {B1, B2, B3, B4, B5}

AddBuild(build) ==
    /\ Len(builds_in) < MaxBuilds
    /\ builds_in' = Append(builds_in, build)
    /\ aggregated' = NotCalled
    /\ UNCHANGED <<RIOT_API_KEY, clock, files, writer, runs, calls, listed, run, saved,
                   request, loaded, extraction>>

Aggregate ==
    /\ ~aggregated.called
    /\ aggregated' = [called |-> TRUE, value |-> aggregate_builds(builds_in)]
    /\ UNCHANGED <<RIOT_API_KEY, clock, files, writer, runs, calls, listed, run, saved,
                   request, loaded, builds_in, extraction>>

InitAgg == InitWith({})

NextAgg ==
    \/ \E build \in BuildCatalogue : AddBuild(build)
    \/ Aggregate

SpecAgg == InitAgg /\ [][NextAgg]_vars

\* ---------------------------------------------- the extractor on its own
\* extract_build_from_participant and extract_starting_items called as lines
\* 417-423 call them, on a participant and a timeline drawn from the sets
\* below, and aggregate_builds called on what they return.
MaxFrameEvents == 2  \* events in the first frame of a timeline

\* marks a key that the payload does not hold
Missing == 0 - 3

\* base with the fields of fields that are not Missing
WithFields(base, fields) ==
    [k \in DOMAIN base \cup {f \in DOMAIN fields : fields[f] # Missing} |->
        IF k \in DOMAIN fields THEN fields[k] ELSE base[k]]

BaseParticipant ==
    [championId |-> 20, teamPosition |-> "TOP", win |-> TRUE, participantId |-> 1]

\* what an item slot holds: nothing, 0, an item of its own, one of two boots
SlotValues(i) == {Missing, 0, 1001 + i, 3006, 3047}

\* participants that differ in their item slots; item7 is no slot of the API
ItemParticipants ==
    {WithFields(BaseParticipant,
                [item0 |-> a0, item1 |-> a1, item2 |-> a2, item3 |-> a3, item4 |-> a4,
                 item5 |-> a5, item6 |-> a6, item7 |-> a7]) :
       a0 \in SlotValues(0), a1 \in SlotValues(1), a2 \in SlotValues(2),
       a3 \in SlotValues(3), a4 \in {Missing, 1005}, a5 \in {Missing, 1006},
       a6 \in SlotValues(6), a7 \in {Missing, 3009}}

\* "statPerks": an object with some of its three slots, null, or no such key
StatPerksValues ==
    {WithFields(<<>>, [offense |-> o, flex |-> f, defense |-> d]) :
       o \in {Missing, 5008}, f \in {Missing, NoneId, 5008, 5002}, d \in {Missing, 5001}}
    \cup {None}
WithPerks(base, perks) ==
    [k \in DOMAIN base \cup {"perks"} |-> IF k = "perks" THEN perks ELSE base[k]]
ShardParticipants ==
    {WithPerks(BaseParticipant, [styles |-> <<>>, statPerks |-> sp]) :
       sp \in StatPerksValues}
    \cup {WithPerks(BaseParticipant, [styles |-> <<>>]), BaseParticipant}

\* an element of "events" that is no JSON object
Malformed == [bad |-> TRUE]

\* events of participant 1 (the one extracted) and of participant 2
EventCatalogue ==
    {Purchase(1, 29999, 1054), Purchase(1, 1000, 2003), Purchase(1, 30000, 1055),
     Purchase(2, 1000, 1056), Purchase(1, NoneId, 1057), SkillUp(1, 1), SkillUp(1, 3),
     SkillUp(1, 5), SkillUp(2, 2), SkillUp(1, Unhashable), Malformed}

EventLists(n) == UNION {[1..k -> EventCatalogue] : k \in 0..n}

\* the frames after the first: none, an empty one, or one with one event
LaterFrames ==
    {<<>>, <<[events |-> <<>>]>>} \cup {<<[events |-> <<e>>]>> : e \in EventCatalogue}

TimelineInputs ==
    {Timeline(<<[events |-> first]>> \o later) :
       first \in EventLists(MaxFrameEvents), later \in LaterFrames}
    \cup {Timeline(<<>>), TList, None}

\* the participant with and without its "participantId"
TimelineParticipants ==
    {BaseParticipant, [k \in DOMAIN BaseParticipant \ {"participantId"} |-> BaseParticipant[k]]}

InitExtract ==
    /\ InitBase({})
    /\ RIOT_API_KEY = "RGAPI"
    /\ extracted = NotCalled
    /\ \/ participant_in \in ItemParticipants \cup ShardParticipants /\ timeline_in = None
       \/ participant_in \in TimelineParticipants /\ timeline_in \in TimelineInputs

\* lines 417-423 on participant_in and timeline_in, and extract_starting_items
\* called directly
Extract ==
    /\ ~extracted.called
    /\ LET participant_id == Get(participant_in, "participantId", NoneId)
           build == extract_build_from_participant(participant_in, timeline_in,
                                                   participant_id)
           starting_items == extract_starting_items(timeline_in, participant_id)
       IN extracted' =
            [called |-> TRUE,
             build |-> IF timeline_in # None
                       THEN [build EXCEPT !.starting_items = starting_items]
                       ELSE build,
             starting_items |-> starting_items]
    /\ UNCHANGED <<RIOT_API_KEY, clock, files, writer, runs, calls, listed, run, saved,
                   request, loaded, builds_in, aggregated, participant_in, timeline_in>>

\* aggregate_builds on the extracted build followed by others
AggregateExtracted(others) ==
    /\ extracted.called
    /\ ~aggregated.called
    /\ builds_in' = <<extracted.build>> \o others
    /\ aggregated' = [called |-> TRUE, value |-> aggregate_builds(builds_in')]
    /\ UNCHANGED <<RIOT_API_KEY, clock, files, writer, runs, calls, listed, run, saved,
                   request, loaded, extraction>>

NextExtract ==
    \/ Extract
    \/ \E others \in {<<>>, <<B2>>, <<B5, B3>>} : AggregateExtracted(others)

SpecExtract == InitExtract /\ [][NextExtract]_vars

\* ------------------------------------- api_client.py: _make_request
MaxRequests == 2

\* one attempt more than the configuration gives
RETRY_COUNT_four == 3 + 1

\* api_client.py line 48
RETRY_COUNT == 3

\* What session.request does on one attempt: it raises Timeout or
\* ConnectionError, or it returns a response with a status and a body text.
Timeout == [kind |-> "Timeout"]
ConnectionError == [kind |-> "ConnectionError"]
Response(status_code, text) ==
    [kind |-> "response", status_code |-> status_code, text |-> text]
StatusCodes == {200, 201, 400, 404, 429, 500, 503}
BodyTexts == {"{\"role\": \"top\"}", "[]", "", "<html>"}
AttemptOutcomes ==
    {Timeout, ConnectionError} \cup {Response(c, t) : c \in StatusCodes, t \in BodyTexts}

\* response.json(): the parsed body, or JSONDecodeError
JSONDecodeError == [py |-> "JSONDecodeError"]
response_json(text) ==
    CASE text = "{\"role\": \"top\"}" -> [role |-> "top"]
      [] text = "[]" -> <<>>
      [] OTHER -> JSONDecodeError

\* the exceptions of the client, with the status_code they carry
APIError(status_code) == [type |-> "APIError", status_code |-> status_code]
APITimeoutError == [type |-> "APITimeoutError", status_code |-> None]
APINotFoundError == [type |-> "APINotFoundError", status_code |-> 404]
APIServerError(status_code) == [type |-> "APIServerError", status_code |-> status_code]

raise(req, exception) == [req EXCEPT !.pc = "raised", !.raised = exception]

\* lines 540-571: one turn of the loop `for attempt in range(RETRY_COUNT)`,
\* session.request having done what outcome says; `continue` on the last
\* value of attempt would leave the loop and reach line 571
make_request_attempt(req, outcome) ==
    LET tried == [req EXCEPT !.log = Append(@, outcome)]
        continue == IF req.attempt + 1 < RETRY_COUNT
                    THEN [tried EXCEPT !.attempt = @ + 1]
                    ELSE raise(tried, APIError(None))
    IN CASE outcome.kind = "Timeout" ->
              IF req.attempt = RETRY_COUNT - 1 THEN raise(tried, APITimeoutError)
              ELSE continue
         [] outcome.kind = "ConnectionError" ->
              IF req.attempt = RETRY_COUNT - 1 THEN raise(tried, APIError(None))
              ELSE continue
         [] OTHER ->
              IF outcome.status_code = 404 THEN raise(tried, APINotFoundError)
              ELSE IF outcome.status_code >= 500
                   THEN raise(tried, APIServerError(outcome.status_code))
              ELSE IF outcome.status_code >= 400
                   THEN raise(tried, APIError(outcome.status_code))
              ELSE IF response_json(outcome.text) = JSONDecodeError
                   THEN raise(tried, APIError(None))
              ELSE [tried EXCEPT !.pc = "returned",
                                 !.result = response_json(outcome.text)]

\* line 514: _make_request is called
MakeRequest(endpoint) ==
    /\ request.pc # "attempt"
    /\ request.requests < MaxRequests
    /\ request' = [NoRequest EXCEPT !.pc = "attempt", !.endpoint = endpoint,
                                    !.requests = request.requests + 1]
    /\ UNCHANGED <<RIOT_API_KEY, clock, files, writer, runs, calls, listed, run, saved,
                   loaded, builds_in, aggregated, extraction>>

\* lines 540-569: one attempt
Attempt(outcome) ==
    /\ request.pc = "attempt"
    /\ request' = make_request_attempt(request, outcome)
    /\ UNCHANGED <<RIOT_API_KEY, clock, files, writer, runs, calls, listed, run, saved,
                   loaded, builds_in, aggregated, extraction>>

InitRetry == InitWith({})

NextRetry ==
    \/ \E endpoint \in {"/builds", "/tierlist"} : MakeRequest(endpoint)
    \/ \E outcome \in AttemptOutcomes : Attempt(outcome)

SpecRetry == InitRetry /\ [][NextRetry]_vars

\* ------------------------------------------------------------ the claims
ScanPcs == {"player", "match_list", "match", "timeline"}
FileOf(r) == files[get_cache_path(r.champion_id, r.role)]

\* the cache file of the key holds a JSON document younger than the TTL
FreshEntry(fs, now, champion_id, role) ==
    LET file == fs[get_cache_path(champion_id, role)] IN
    file.kind = "json" /\ now - file.cache.timestamp < CACHE_DURATION

\* C1: with a credential, a call that finds a non-expired cache entry for
\* its (champion_id, role) returns that entry's payload and has issued no
\* network request of any kind when it returns.
C1_CacheHit ==
    [][\A p \in RunIds :
         (/\ run[p].pc = "idle"
          /\ run'[p].pc # "idle"
          /\ RIOT_API_KEY # ""
          /\ FreshEntry(files, clock', run'[p].champion_id, run'[p].role))
         => /\ run'[p].pc = "done"
            /\ run'[p].result =
                 files[get_cache_path(run'[p].champion_id, run'[p].role)].cache.data
            /\ Total(run'[p].net) = 0]_vars

\* a call was served from the cache
C1_Witness ==
    \E p \in RunIds :
        /\ run[p].pc = "done"
        /\ RIOT_API_KEY # ""
        /\ run[p].result # None
        /\ Total(run[p].net) = 0
        /\ FreshEntry(files, clock, run[p].champion_id, run[p].role)

\* C2: load_build_cache(c, r) returns the data of the last
\* save_build_cache(c, r, data) exactly when less than 21600 seconds have
\* passed since that save, and null otherwise (at 21600 seconds too, and when
\* nothing was saved under (c, r): what was saved under another key is never
\* returned).
C2_RoundTrip ==
    loaded # None
    => LET last == saved[<<loaded.champion_id, loaded.role>>] IN
       loaded.value = IF last # None /\ loaded.at - last.at < CACHE_DURATION
                      THEN last.data
                      ELSE None

\* C3: the accumulated builds never exceed max_matches; once max_matches
\* builds are accumulated the scan issues no further request; and the scan
\* goes on to Finalize, or leaves a player's matches, only with the budget
\* reached or everything enumerated visited.
C3_ScanBound ==
    [][\A p \in RunIds :
         LET r == run[p]
             r2 == run'[p]
         IN /\ r2.pc # "idle" => Len(r2.builds) <= r2.max_matches
            /\ (r.pc \in ScanPcs /\ Len(r.builds) >= r.max_matches) => r2.net = r.net
            /\ (r.pc \in ScanPcs /\ r2.pc = "finalize")
                  => (Len(r.builds) >= r.max_matches \/ r.pidx > Len(r.players))
            /\ (r.pc = "match" /\ r2.pc = "player")
                  => (Len(r.builds) >= r.max_matches \/ r.midx > Len(r.match_ids))]_vars

\* the budget is reached while a listed match is still unvisited
C3_Witness ==
    \E p \in RunIds :
        /\ run[p].pc = "match"
        /\ run[p].max_matches >= 1
        /\ Len(run[p].builds) = run[p].max_matches
        /\ run[p].midx <= Len(run[p].match_ids)

C5_NoCredential ==
    RIOT_API_KEY = ""
    => \A p \in RunIds :
          /\ run[p].pc \in {"idle", "done"}
          /\ run[p].result = None
          /\ Total(run[p].net) = 0

\* a call without credential returned while the cache holds an entry of its key
C5_Witness ==
    /\ RIOT_API_KEY = ""
    /\ \E p \in RunIds : run[p].pc = "done" /\ FileOf(run[p]).kind = "json"

\* C6: a run whose lower-cased champion is no key of the mapping it fetched
\* (the empty mapping of a failed fetch included) returns null and has issued
\* no request but the mapping fetch; no run enumerates players or fetches a
\* match before it fetched the mapping.
C6_MappingResolve ==
    \A p \in RunIds :
        LET r == run[p] IN
        /\ (r.net.mapping > 0 /\ Lower(r.champion_id) \notin DOMAIN r.champion_mapping)
              => /\ r.pc = "done"
                 /\ r.result = None
                 /\ Total(r.net) = 1
        /\ Total(r.net) > 0 => r.net.mapping = 1

\* the mapping fetch failed for a champion that exists
C6_Witness ==
    \E p \in RunIds :
        /\ run[p].pc = "done"
        /\ run[p].net.mapping = 1
        /\ run[p].champion_id = <<"Nunu">>
        /\ run[p].champion_mapping = <<>>

\* C7: a failed player resolution, an empty match list or a failed
\* match-details fetch moves the scan to the next player or match and to
\* nothing else; no player or match is asked for twice; a match with the
\* target participant met later adds its build.
C7_SkipAndContinue ==
    [][\A p \in RunIds :
         LET r == run[p]
             r2 == run'[p]
             kept == /\ r2.players = r.players
                     /\ r2.builds = r.builds
                     /\ r2.max_matches = r.max_matches
         IN /\ (r.pc = "player" /\ r2.net.puuid = r.net.puuid + 1 /\ r2.pc # "match_list")
                  => (r2.pc = "player" /\ r2.pidx = r.pidx + 1 /\ kept)
            /\ (r.pc = "match_list" /\ r2.pc # "match_list")
                  => (r2.pc = "match" /\ r2.pidx = r.pidx /\ kept)
            /\ (r.pc = "match" /\ r2.net.details = r.net.details + 1
                  /\ r2.pc \notin {"timeline", "raised"})
                  => (/\ r2.pc = "match" /\ r2.midx = r.midx + 1 /\ r2.pidx = r.pidx
                      /\ r2.match_ids = r.match_ids /\ kept)
            /\ (r.pc = "timeline" /\ r2.pc # "raised")
                  => (/\ r2.pc = "match" /\ r2.midx = r.midx + 1 /\ r2.pidx = r.pidx
                      /\ Len(r2.builds) = Len(r.builds) + 1)
            /\ r2.pc = "player" => r2.net.puuid = r2.pidx - 1
            /\ r2.pc \in {"match_list", "match", "timeline"} => r2.net.puuid = r2.pidx]_vars

\* the first player could not be resolved and the second one gave the build
C7_Witness ==
    \E p \in RunIds :
        /\ run[p].pc = "done"
        /\ run[p].max_matches = 1
        /\ Len(run[p].builds) = 1
        /\ run[p].net.puuid = 2
        /\ run[p].net.match_list = 1

\* C8: get_builds_from_api never raises to its caller, whatever the external
\* calls answer (malformed match-details and timeline payloads included).
C8_NeverRaises == \A p \in RunIds : run[p].pc # "raised"

\* C9: two runs of one key that overlap are not coordinated; when both have
\* collected and returned, each has returned the aggregate of its own builds
\* and the cache file holds the payload of the run that wrote last.
C9_FinalWriteWins ==
    \A p, q \in RunIds :
        (/\ p # q
         /\ run[p].pc = "done" /\ run[p].builds # <<>>
         /\ run[q].pc = "done" /\ run[q].builds # <<>>
         /\ run[p].champion_id = run[q].champion_id
         /\ run[p].role = run[q].role)
        => /\ run[p].result = aggregate_builds(run[p].builds)
           /\ FileOf(run[p]).kind = "json"
           /\ FileOf(run[p]).cache.data =
                 run[writer[get_cache_path(run[p].champion_id, run[p].role)]].result

\* the values of a field of the builds, flattened in the order of the builds;
\* a build without boots and a missing or zero shard give none
Present(values) == SelectSeq(values, LAMBDA v : v # NoneId /\ v # 0)
FieldCore(builds) == Concat([i \in 1..Len(builds) |-> builds[i].items])
FieldStarting(builds) == Concat([i \in 1..Len(builds) |-> builds[i].starting_items])
FieldBoots(builds) == Present([i \in 1..Len(builds) |-> builds[i].boots])
FieldPrimary(builds) == Concat([i \in 1..Len(builds) |-> builds[i].runes.primary])
FieldSecondary(builds) == Concat([i \in 1..Len(builds) |-> builds[i].runes.secondary])
FieldShards(builds) == Present(Concat([i \in 1..Len(builds) |-> builds[i].runes.shards]))

Occurrences(v, values) == Cardinality({i \in 1..Len(values) : values[i] = v})
FirstAt(v, values) ==
    CHOOSE i \in 1..Len(values) :
        values[i] = v /\ \A j \in 1..Len(values) : values[j] = v => i <= j
\* a ranks before b: more frequent, or as frequent and met first
RanksBefore(a, b, values) ==
    \/ Occurrences(a, values) > Occurrences(b, values)
    \/ /\ Occurrences(a, values) = Occurrences(b, values)
       /\ FirstAt(a, values) < FirstAt(b, values)
\* ranked is the list of the n best ranked distinct values of values
RankedTop(ranked, values, n) ==
    /\ Len(ranked) = Min(n, Cardinality(Range(values)))
    /\ Range(ranked) \subseteq Range(values)
    /\ \A i, j \in 1..Len(ranked) : i < j => RanksBefore(ranked[i], ranked[j], values)
    /\ \A v \in Range(values) \ Range(ranked) :
          \A i \in 1..Len(ranked) : RanksBefore(ranked[i], v, values)

\* C10: every list of the result of aggregate_builds is the list of the N
\* most frequent distinct values of its field over all the builds, most
\* frequent first and, among equally frequent values, the one met first in
\* the flattened input first (N = 6 core, 3 starting, 1 boots, 4 primary,
\* 2 secondary, 3 shards).
C10_Ranking ==
    (aggregated.called /\ builds_in # <<>>)
    => /\ RankedTop(aggregated.value.items.core, FieldCore(builds_in), 6)
       /\ RankedTop(aggregated.value.items.starting, FieldStarting(builds_in), 3)
       /\ RankedTop(aggregated.value.items.boots, FieldBoots(builds_in), 1)
       /\ RankedTop(aggregated.value.runes.primary, FieldPrimary(builds_in), 4)
       /\ RankedTop(aggregated.value.runes.secondary, FieldSecondary(builds_in), 2)
       /\ RankedTop(aggregated.value.runes.shards, FieldShards(builds_in), 3)

\* core lists [[1,2,3],[1,2,4],[1,5,6]]: 1, 2, then 3 before 4, 5 and 6
C10_Witness ==
    /\ aggregated.called
    /\ builds_in = <<B1, B2, B3>>
    /\ aggregated.value.items.core = <<1, 2, 3, 4, 5, 6>>
    /\ aggregated.value.items.boots = <<3047>>

\* the first-three-element prefixes of the non-empty skill sequences of the
\* builds, in the order of the builds
SkillPrefixes(builds) ==
    SelectSeq([i \in 1..Len(builds) |->
                 SubSeq(builds[i].skill_order, 1, Min(3, Len(builds[i].skill_order)))],
              LAMBDA prefix : prefix # <<>>)

\* C11: the skill_order of the result of aggregate_builds is the most
\* frequent of the first-three-element prefixes of the builds' skill
\* sequences (a shorter sequence counts whole, an empty one not at all), the
\* first met among equally frequent ones; it is empty when no build has a
\* non-empty skill sequence.
C11_SkillOrder ==
    (aggregated.called /\ builds_in # <<>>)
    => IF SkillPrefixes(builds_in) = <<>>
       THEN aggregated.value.skill_order = <<>>
       ELSE RankedTop(<<aggregated.value.skill_order>>, SkillPrefixes(builds_in), 1)

\* [E,Q], [Q,E,W], [Q,W,E,Q]: three prefixes met once each, the two-letter
\* one first
C11_Witness ==
    /\ aggregated.called
    /\ builds_in = <<B5, B3, B1>>
    /\ aggregated.value.skill_order = <<"E", "Q">>

\* C12, as stated: whatever get_builds_from_api returns has a sample_size
\* between 1 and the max_matches of the call.
C12_SampleSizeBound ==
    \A p \in RunIds :
        (run[p].pc = "done" /\ run[p].result # None)
        => /\ 1 <= run[p].result.sample_size
           /\ run[p].result.sample_size <= run[p].max_matches

\* C12, amended: aggregate_builds gives None exactly on the empty list and
\* otherwise a result whose sample_size is the number of builds; a result
\* that a run collected itself has 1 <= sample_size <= max_matches, and a
\* result served from the cache has the sample_size (at least 1) of the run
\* that stored it, whatever the max_matches of the call.
C12_SampleSize ==
    \A p \in RunIds :
        LET r == run[p] IN
        /\ (aggregate_builds(r.builds) = None) <=> (r.builds = <<>>)
        /\ (r.pc \in {"dump", "done"} /\ r.builds # <<>>)
           => /\ r.aggregated.sample_size = Len(r.builds)
              /\ 1 <= r.aggregated.sample_size
              /\ r.aggregated.sample_size <= r.max_matches
        /\ (r.pc = "done" /\ r.builds # <<>>) => r.result = r.aggregated
        /\ (r.pc = "done" /\ r.result # None) => r.result.sample_size >= 1

\* a run that collected two builds under max_matches = 2 and returned them
C12_Witness ==
    \E p \in RunIds :
        /\ run[p].pc = "done"
        /\ Len(run[p].builds) = 2
        /\ run[p].max_matches = 2
        /\ run[p].result # None
        /\ run[p].result.sample_size = 2

\* the slots item0..item6 of the participant handed to the extractor
SlotKeys == <<"item0", "item1", "item2", "item3", "item4", "item5", "item6">>
SlotOf(participant, i) ==
    IF SlotKeys[i] \in DOMAIN participant THEN participant[SlotKeys[i]] ELSE 0
BootsAllowlist == {3006, 3009, 3020, 3047, 3111, 3117, 3158}
\* the slots that hold an item, and those of them that hold boots
PopulatedSlots(participant) == {i \in 1..7 : SlotOf(participant, i) # 0}
BootsSlots(participant) == {i \in 1..7 : SlotOf(participant, i) \in BootsAllowlist}
Highest(slots) == CHOOSE i \in slots : \A j \in slots : j <= i

\* C14: in the build extract_build_from_participant returns, no id of the
\* boots allowlist is in items; boots is None exactly when no slot
\* item0..item6 holds an allowlisted id, and otherwise it is the allowlisted
\* id of the highest such slot.
C14_Boots ==
    extracted.called
    => /\ Range(extracted.build.items) \cap BootsAllowlist = {}
       /\ (extracted.build.boots = NoneId) <=> (BootsSlots(participant_in) = {})
       /\ BootsSlots(participant_in) # {}
          => extracted.build.boots =
                SlotOf(participant_in, Highest(BootsSlots(participant_in)))

\* boots in item1 and in item6: the later slot is kept
C14_Witness ==
    /\ extracted.called
    /\ SlotOf(participant_in, 2) = 3006
    /\ SlotOf(participant_in, 7) = 3047
    /\ extracted.build.boots = 3047

\* C15: nothing but the slots item0..item6 is read and a slot that is absent
\* or 0 is skipped: the length of items plus 1 if boots is set equals the
\* number of populated slots less the boots slots beyond the retained one,
\* and items is the non-boots items in slot order.  (Stated for every
\* participant, the ones with all 7 slots populated included.)
C15_ItemConservation ==
    extracted.called
    => LET populated == PopulatedSlots(participant_in)
           boots == BootsSlots(participant_in)
           plain == SelectSeq([i \in 1..7 |-> i], LAMBDA i : i \in populated \ boots)
       IN /\ Len(extracted.build.items)
               + (IF extracted.build.boots # NoneId THEN 1 ELSE 0)
             = Cardinality(populated)
               - (IF boots = {} THEN 0 ELSE Cardinality(boots) - 1)
          /\ extracted.build.items =
                [k \in 1..Len(plain) |-> SlotOf(participant_in, plain[k])]

\* five populated slots of which two hold boots, item2 = 0, item6 populated
\* and a stray "item7"
C15_Witness ==
    /\ extracted.called
    /\ [i \in 1..7 |-> SlotOf(participant_in, i)] = <<1001, 3047, 0, 3006, 1005, 0, 1007>>
    /\ "item7" \in DOMAIN participant_in
    /\ extracted.build.items = <<1001, 1005, 1007>>
    /\ extracted.build.boots = 3006

\* the participant id lines 418 hands to the extractors
GivenId == Get(participant_in, "participantId", NoneId)
\* the frames of the timeline handed to the extractors (none when the payload
\* is no timeline object)
FramesIn ==
    IF "info" \in DOMAIN timeline_in THEN timeline_in.info.frames ELSE <<>>
EventsOf(frame) == frame.events
FirstFrameEvents == IF FramesIn = <<>> THEN <<>> ELSE EventsOf(FramesIn[1])
AllFrameEvents == Concat([i \in 1..Len(FramesIn) |-> EventsOf(FramesIn[i])])
IsPrefix(s, t) == Len(s) <= Len(t) /\ s = SubSeq(t, 1, Len(s))

\* a purchase of the given participant made before second 30
EarlyPurchase(e) ==
    /\ "type" \in DOMAIN e /\ e.type = "ITEM_PURCHASED"
    /\ e.participantId = GivenId
    /\ e.timestamp # NoneId /\ e.timestamp < 30000
EarlyPurchases == SelectSeq(FirstFrameEvents, EarlyPurchase)
ItemIdsOf(events) == [i \in 1..Len(events) |-> events[i].itemId]

\* C16: extract_starting_items returns, in event order, the itemId of the
\* events of the first frame that are ITEM_PURCHASED, of the given
\* participant and stamped strictly below 30000: exactly those when the
\* traversal meets no malformed event, and in every case no purchase stamped
\* 30000 or later and no event of a later frame.
C16_StartingItems ==
    extracted.called
    => /\ IsPrefix(extracted.starting_items, ItemIdsOf(EarlyPurchases))
       /\ (\A i \in 1..Len(FirstFrameEvents) :
              ~StartEventRaises(FirstFrameEvents[i], GivenId))
          => extracted.starting_items = ItemIdsOf(EarlyPurchases)

\* a purchase at 29999 and one at 30000 in the first frame, an early one in
\* the second frame: the first alone is returned
C16_Witness ==
    /\ extracted.called
    /\ GivenId = 1
    /\ FramesIn = <<[events |-> <<Purchase(1, 29999, 1054), Purchase(1, 30000, 1055)>>],
                    [events |-> <<Purchase(1, 1000, 2003)>>]>>
    /\ extracted.starting_items = <<1054>>

\* C17: when the traversal of the first frame raises (an event that is no
\* object, a null timestamp), extract_starting_items returns the empty list.
C17_EmptyOnException ==
    (/\ extracted.called
     /\ \E i \in 1..Len(FirstFrameEvents) : StartEventRaises(FirstFrameEvents[i], GivenId))
    => extracted.starting_items = <<>>

\* a level-up of the given participant on one of the slots 1..4
SkillLetters == <<"Q", "W", "E", "R">>
LevelUp(e) ==
    /\ "type" \in DOMAIN e /\ e.type = "SKILL_LEVEL_UP"
    /\ e.participantId = GivenId
    /\ e.skillSlot \in 1..4
LevelUps == SelectSeq(AllFrameEvents, LevelUp)
LettersOf(events) == [i \in 1..Len(events) |-> SkillLetters[events[i].skillSlot]]

\* C19: with a timeline and a participant id, the skill_order of the build is
\* the letters of the SKILL_LEVEL_UP events of that participant over all the
\* frames in order, slots 1..4 giving Q, W, E, R and any other slot nothing
\* (all of them when the traversal meets no malformed event); without a
\* timeline or without a participant id it is empty.  Every element is one
\* of Q, W, E, R.
C19_SkillOrder ==
    extracted.called
    => /\ Range(extracted.build.skill_order) \subseteq {"Q", "W", "E", "R"}
       /\ (timeline_in = None \/ GivenId = NoneId) => extracted.build.skill_order = <<>>
       /\ (timeline_in # None /\ GivenId # NoneId)
          => /\ IsPrefix(extracted.build.skill_order, LettersOf(LevelUps))
             /\ (\A i \in 1..Len(AllFrameEvents) :
                    ~SkillEventRaises(AllFrameEvents[i], GivenId))
                => extracted.build.skill_order = LettersOf(LevelUps)

\* Q and a slot 5 in the first frame, E in the second
C19_Witness ==
    /\ extracted.called
    /\ GivenId = 1
    /\ FramesIn = <<[events |-> <<SkillUp(1, 1), SkillUp(1, 5)>>],
                    [events |-> <<SkillUp(1, 3)>>]>>
    /\ extracted.build.skill_order = <<"Q", "E">>

\* the statPerks structure of the participant handed to the extractor, None
\* when the payload has none (or has null there)
StatPerksIn ==
    IF "perks" \in DOMAIN participant_in /\ "statPerks" \in DOMAIN participant_in["perks"]
    THEN participant_in["perks"]["statPerks"]
    ELSE None
ShardSlot(stat_perks, slot) ==
    IF slot \in DOMAIN stat_perks THEN stat_perks[slot] ELSE NoneId
Positional(stat_perks) ==
    <<ShardSlot(stat_perks, "offense"), ShardSlot(stat_perks, "flex"),
      ShardSlot(stat_perks, "defense")>>

\* C18, as stated: a statPerks structure is mapped positionally into a
\* 3-element shards list, a missing slot giving a null entry at its position.
C18_ThreeShards ==
    (extracted.called /\ StatPerksIn # None)
    => extracted.build.runes.shards = Positional(StatPerksIn)

\* C18, amended: a statPerks structure that holds at least one slot is mapped
\* positionally into the 3-element list [offense, flex, defense], a missing
\* slot giving None at its position; without statPerks, or with an empty
\* one, shards is the empty list.  aggregate_builds ignores the None entries:
\* its shards are ranked among the other entries only.
C18_Shards ==
    /\ extracted.called
       => extracted.build.runes.shards =
             IF StatPerksIn # None /\ DOMAIN StatPerksIn # {}
             THEN Positional(StatPerksIn) ELSE <<>>
    /\ aggregated.called
       => /\ NoneId \notin Range(aggregated.value.runes.shards)
          /\ RankedTop(aggregated.value.runes.shards, FieldShards(builds_in), 3)

\* offense and defense without flex: a None in the middle, which the
\* aggregate leaves out
C18_Witness ==
    /\ aggregated.called
    /\ builds_in = <<extracted.build>>
    /\ extracted.build.runes.shards = <<5008, NoneId, 5001>>
    /\ aggregated.value.runes.shards = <<5008, 5001>>

\* C20: a run of get_builds_from_api reads the cache at most once, before
\* any of its network calls, and writes it at most once, after all of them;
\* it never reads the cache after writing it.
C20_CacheAccess ==
    [][\A p \in RunIds :
          /\ run'[p].cache_reads <= 1
          /\ run'[p].cache_writes <= 1
          /\ run'[p].cache_reads > run[p].cache_reads
             => Total(run[p].net) = 0 /\ run[p].cache_writes = 0
          /\ Total(run'[p].net) > Total(run[p].net)
             => /\ run[p].cache_reads = 1
                /\ run'[p].cache_writes = 0]_vars

\* a run that read the cache, made its network calls, wrote the cache and
\* returned
C20_Witness ==
    \E p \in RunIds :
        /\ run[p].pc = "done"
        /\ run[p].cache_reads = 1
        /\ run[p].cache_writes = 1
        /\ Total(run[p].net) > 0

\* C21: between every two consecutive requests of the scan (player
\* resolution, match list, match details, timeline) of a run there is a
\* delay: no request of the scan directly follows another one.
C21_DelayBetweenCalls ==
    \A p \in RunIds : run[p].gap # "call"
\* ---------------------------------------------------------------- C22
\* the ladder answers of a run that has enumerated its players
Enumerated(r) == r.challenger # None
FirstOf(lst, n) == [i \in 1..(IF Len(lst) < n THEN Len(lst) ELSE n) |-> lst[i]]

Wanted(r, participant) ==
    /\ "championId" \in DOMAIN participant
    /\ participant.championId = r.champion_key
    /\ "teamPosition" \in DOMAIN participant
    /\ participant.teamPosition = r.target_role

C24_TimelineFailure ==
    \A p \in RunIds :
        LET r == run[p] IN
        /\ r.net.timeline = Len(r.builds)
        /\ r.matches_checked = Len(r.builds)
        /\ (r.net.timeline > 0 /\ r.timeline = None) =>
              /\ r.builds # <<>>
              /\ r.builds[Len(r.builds)].skill_order = <<>>
              /\ r.builds[Len(r.builds)].starting_items = <<>>
\* ---------------------------------------------------------------- C25
Retried == {"Timeout", "ConnectionError"}
ParsedBody(text) ==
    IF text = "{\"role\": \"top\"}" THEN [parsed |-> TRUE, value |-> [role |-> "top"]]
    ELSE IF text = "[]" THEN [parsed |-> TRUE, value |-> <<>>]
    ELSE [parsed |-> FALSE]
RaisedType(type) == request.pc = "raised" /\ request.raised.type = type

\* C25: _make_request attempts the HTTP request at most 3 times; a further
\* attempt follows only a timeout or a connection error, and the third such
\* failure in a row raises APITimeoutError (timeout) or APIError (connection
\* error); a 404, another 4xx, a 5xx or an invalid-JSON body raises on the
\* attempt where it occurs; a successful response returns the parsed body.
C25_RetryProtocol ==
    LET log == request.log
        n == Len(log)
    IN /\ n <= 3
       /\ \A i \in 1..(n - 1) : log[i].kind \in Retried
       /\ n = 0 => request.pc \in {"idle", "attempt"}
       /\ n > 0 =>
            LET last == log[n] IN
            IF last.kind \in Retried
            THEN IF n < 3 THEN request.pc = "attempt"
                 ELSE IF last.kind = "Timeout" THEN RaisedType("APITimeoutError")
                 ELSE RaisedType("APIError")
            ELSE IF last.status_code = 404 THEN RaisedType("APINotFoundError")
            ELSE IF last.status_code >= 500 THEN RaisedType("APIServerError")
            ELSE IF last.status_code >= 400 THEN RaisedType("APIError")
            ELSE IF ~ParsedBody(last.text).parsed THEN RaisedType("APIError")
            ELSE /\ request.pc = "returned"
                 /\ request.result = ParsedBody(last.text).value

\* the second request made: a connection error, a further failure and then a
\* timeout on the third attempt, which raises
C25_Witness ==
    /\ request.requests = 2
    /\ Len(request.log) = 3
    /\ request.log[1].kind = "ConnectionError"
    /\ request.log[3].kind = "Timeout"
    /\ RaisedType("APITimeoutError")
\* ---------------------------------------------------------------- C26
\* C26: the cache files change only in the Finalize of a run that has
\* accumulated at least one build, and only the file of that run's
\* (champion_id, role); a call that returns null, and a call served from the
\* cache, has written nothing and leaves every file as it was (the entry keeps
\* its timestamp).
C26_WriteOnlyInFinalize ==
    [][/\ files' # files =>
            \E p \in RunIds :
                /\ run[p].pc \in {"finalize", "dump"}
                /\ run'[p].pc # run[p].pc
                /\ run[p].builds # <<>>
                /\ \A path \in Paths :
                       files'[path] # files[path]
                       => path = get_cache_path(run[p].champion_id, run[p].role)
       /\ \A p \in RunIds :
            (/\ run[p].pc # "done"
             /\ run'[p].pc = "done"
             /\ (run'[p].result = None \/ run[p].pc = "idle"))
            => /\ files' = files
               /\ run'[p].cache_writes = 0]_vars

\* a call served from an entry written some time before: the entry still
\* carries the time of its writing
C26_Witness ==
    \E p \in RunIds :
        LET file == FileOf(run[p]) IN
        /\ run[p].pc = "done"
        /\ RIOT_API_KEY # ""
        /\ run[p].result # None
        /\ Total(run[p].net) = 0
        /\ run[p].cache_writes = 0
        /\ file.kind = "json"
        /\ file.cache.timestamp < clock
        /\ file.cache.data = run[p].result
\* ---------------------------------------------------------------- C27
\* run p has returned the build it collected and stored, and the file of its
\* key still holds what p wrote
StoredBy(p) ==
    /\ run[p].pc = "done"
    /\ run[p].cache_writes = 1
    /\ writer[get_cache_path(run[p].champion_id, run[p].role)] = p
    /\ FileOf(run[p]).kind = "json"

\* C27: the cache key is (champion_id, role) only.  A call made, within the
\* TTL of the entry another call stored, for the same champion_id and role
\* but with another region or another max_matches returns the stored build
\* and issues no network request.
C27_KeyIgnoresRegion ==
    [][\A p, q \in RunIds :
         (/\ p # q
          /\ StoredBy(p)
          /\ run[q].pc = "idle"
          /\ run'[q].pc # "idle"
          /\ RIOT_API_KEY # ""
          /\ run'[q].champion_id = run[p].champion_id
          /\ run'[q].role = run[p].role
          /\ (run'[q].region # run[p].region \/ run'[q].max_matches # run[p].max_matches)
          /\ clock' - FileOf(run[p]).cache.timestamp < CACHE_DURATION)
         => /\ run'[q].pc = "done"
            /\ run'[q].result = run[p].result
            /\ Total(run'[q].net) = 0]_vars

\* a call for "na" with max_matches 1 has returned the two-match build that a
\* call for "euw" with max_matches 2 stored
C27_Witness ==
    \E p, q \in RunIds :
        /\ StoredBy(p)
        /\ run[p].region = "euw"
        /\ run[p].max_matches = 2
        /\ run[p].result.sample_size = 2
        /\ run[q].pc = "done"
        /\ run[q].region = "na"
        /\ run[q].max_matches = 1
        /\ run[q].champion_id = run[p].champion_id
        /\ run[q].role = run[p].role
        /\ Total(run[q].net) = 0
        /\ run[q].result = run[p].result
\* ---------------------------------------------------------------- C28
\* C28: if either ladder request raises, the grandmaster request after a
\* successful challenger request included, get_high_elo_players returns an
\* empty list: the run resolves no player, issues no scan request and returns
\* null.  A ladder answered with a non-OK status leaves the players of the
\* other ladder in the list.
C28_LadderAllOrNothing ==
    \A p \in RunIds :
        LET r == run[p] IN
        Enumerated(r) =>
            /\ (r.challenger.kind = "raises" \/ r.grandmaster.kind = "raises") =>
                  /\ r.enumerated = <<>>
                  /\ r.players = <<>>
                  /\ r.builds = <<>>
                  /\ Total(r.net) = r.net.mapping + r.net.ladder
                  /\ r.pc \in {"player", "finalize", "done"}
                  /\ r.pc = "done" => r.result = None
            /\ (r.challenger.kind = "ok" /\ r.grandmaster.kind = "not_ok") =>
                  r.enumerated = FirstOf(r.challenger.entries, 50)
            /\ (r.challenger.kind = "not_ok" /\ r.grandmaster.kind = "ok") =>
                  r.enumerated = FirstOf(r.grandmaster.entries, 50)

\* the grandmaster request raised after the challenger ladder had given a
\* player, and the run has returned null
C28_Witness ==
    \E p \in RunIds :
        /\ Enumerated(run[p])
        /\ run[p].challenger.kind = "ok"
        /\ run[p].challenger.entries # <<>>
        /\ run[p].grandmaster.kind = "raises"
        /\ run[p].net.ladder = 2
        /\ run[p].pc = "done"
        /\ run[p].result = None
\* ---------------------------------------------------------------- C29
\* lst holds pairwise distinct values of values, at most n of them
DistinctFrom(lst, values, n) ==
    /\ Len(lst) <= n
    /\ \A i, j \in 1..Len(lst) : i # j => lst[i] # lst[j]
    /\ \A i \in 1..Len(lst) : \E k \in 1..Len(values) : values[k] = lst[i]
NeverAbsent(lst) == \A i \in 1..Len(lst) : lst[i] # NoneId /\ lst[i] # 0
BootsOf(builds) == [i \in 1..Len(builds) |-> builds[i].boots]
ShardsOf(builds) == Concat([i \in 1..Len(builds) |-> builds[i].runes.shards])

\* C29: in an AggregatedBuild each of core, starting, boots, primary,
\* secondary and shards holds pairwise distinct values, at most 6, 3, 1, 4, 2
\* and 3 of them, each of which occurs in that field of some input build;
\* boots and shards hold no null and no zero; and core holds no id of the
\* boots allowlist when the input builds come from
\* extract_build_from_participant.
C29_AggregatedLists ==
    (aggregated.called /\ aggregated.value # None) =>
        LET a == aggregated.value
            b == builds_in
        IN /\ DistinctFrom(a.items.core, FieldCore(b), 6)
           /\ DistinctFrom(a.items.starting, FieldStarting(b), 3)
           /\ DistinctFrom(a.items.boots, BootsOf(b), 1)
           /\ DistinctFrom(a.runes.primary, FieldPrimary(b), 4)
           /\ DistinctFrom(a.runes.secondary, FieldSecondary(b), 2)
           /\ DistinctFrom(a.runes.shards, ShardsOf(b), 3)
           /\ NeverAbsent(a.items.boots)
           /\ NeverAbsent(a.runes.shards)
           /\ (extracted.called /\ b = <<extracted.build>>) =>
                 \A i \in 1..Len(a.items.core) : a.items.core[i] \notin BootsAllowlist

\* more distinct core items and shards in the input than the result may
\* hold, and a null shard among them
C29_Witness ==
    /\ aggregated.called
    /\ aggregated.value # None
    /\ Cardinality(Range(FieldCore(builds_in))) > 6
    /\ Len(aggregated.value.items.core) = 6
    /\ Len(aggregated.value.runes.shards) = 3
    /\ \E k \in 1..Len(ShardsOf(builds_in)) : ShardsOf(builds_in)[k] = NoneId
\* ---------------------------------------------------------------- C30
\* C30: every call of get_builds_from_api ends by returning null or an
\* AggregatedBuild, having issued at most one mapping fetch, two ladder
\* requests, 20 player resolutions, 20 match-list requests and no more
\* timeline requests than max_matches.
C30_Termination ==
    \A p \in RunIds :
        LET r == run[p] IN
        r.pc # "idle" =>
            /\ r.net.mapping <= 1
            /\ r.net.ladder <= 2
            /\ r.net.puuid <= 20
            /\ r.net.match_list <= 20
            /\ r.net.timeline <= r.max_matches
            /\ r.pc \notin ScanPcs =>
                  r.pc \in {"mapping", "enumerate", "finalize", "dump", "done"}
            /\ r.pc = "done" =>
                  \/ r.result = None
                  \/ r.result.sample_size >= 1
====
